---- MODULE Spec2Model ----
(***************************************************************************)
(* A model of do.py, the BBMP optical-fibre-cable (OFC) scraper:           *)
(*   get_wards -> get_all_ofc_data -> create_behemoth_geojson              *)
(*             -> clean_data_derive_insights                               *)
(* Texts (HTTP bodies, files) are modelled by the structure a parser finds *)
(* in them; Python strings that the code splits are sequences of           *)
(* one-character strings; exceptions are values of `error`.                *)
(***************************************************************************)
EXTENDS Integers, Sequences, FiniteSets, TLC

VARIABLES
  pc,                     \* the function main (or the entry point) is in
  entry,                  \* the function the run was started from
  error,                  \* the uncaught exception that ended the run, or "none"
  stdout,                 \* what print() wrote
  i,                      \* get_wards: the zone of the loop
  final_data,             \* get_wards: the rows collected so far
  zones_wards_csv,        \* the file zones_wards.csv
  zones_wards,            \* get_all_ofc_data: its argument
  idx,                    \* get_all_ofc_data: position of the loop in zones_wards
  fpc,                    \* get_all_ofc_data: position inside the loop body
  page,                   \* get_all_ofc_data: the response of the current request
  log,                    \* the file get_all_ofc_data.log
  data_raw_dir,           \* whether the directory data_raw exists
  data_raw,               \* the files of the directory data_raw: name -> content
  writes,                 \* how often this run opened each raw file for writing
  received,               \* the bodies the requests of this run returned, in order
  files_left,             \* create_behemoth_geojson: files still to read
  features,               \* create_behemoth_geojson: the list features
  geojson,                \* the file bbmp_ofc_data.geojson
  gdf,                    \* clean_data_derive_insights: the frame read
  gdf_segments,           \* clean_data_derive_insights: the segment view
  segments_csv,           \* the file bbmp_ofc_segments.csv
  view_total_ofc_length,  \* the per-company totals printed
  gdf_spread,             \* clean_data_derive_insights: the spread view
  gpkg,                   \* the file bbmp_ofc_segment_portions.gpkg
  gif,                    \* the file company_spread.gif
  row,                    \* parse_email_domain: its argument
  company                 \* parse_email_domain: what it returned

vars == <<pc, entry, error, stdout, i, final_data, zones_wards_csv, zones_wards,
          idx, fpc, page, log, data_raw_dir, data_raw, writes, received,
          files_left, features, geojson,
          gdf, gdf_segments, segments_csv, view_total_ofc_length, gdf_spread,
          gpkg, gif, row, company>>

-----------------------------------------------------------------------------
(* Bounds of the model *)

MaxParts == 3       \* '@'-separated pieces of a generated email address
MaxFeatures == 3    \* features of a collection given to the cleaner
MaxFiles == 2       \* raw files in a directory given to the collector
MaxList == 2        \* rows of a ward list given to the fetcher
MaxWards == 2       \* wards the remote server returns over all zones

(* Program constants *)

FirstZone == 1
LastZone == 8

-----------------------------------------------------------------------------
(* Python values *)

None == "<None>"

Str(s) == [kind |-> "str", s |-> s]
NoneStr == [kind |-> "none", s |-> <<>>]

RECURSIVE Cat(_)
Cat(s) == IF s = <<>> THEN "" ELSE Head(s) \o Cat(Tail(s))

RECURSIVE StrSplit(_, _)
StrSplit(s, sep) ==
  IF \A k \in 1..Len(s) : s[k] # sep
    THEN <<s>>
    ELSE LET p == CHOOSE k \in 1..Len(s) :
                    s[k] = sep /\ \A j \in 1..(k - 1) : s[j] # sep
         IN  <<SubSeq(s, 1, p - 1)>> \o StrSplit(SubSeq(s, p + 1, Len(s)), sep)

RECURSIVE SumSeq(_)
SumSeq(s) == IF s = <<>> THEN 0 ELSE Head(s) + SumSeq(Tail(s))

RECURSIVE SelectIdx(_, _)
SelectIdx(n, keep) ==
  IF n = 0 THEN <<>>
  ELSE SelectIdx(n - 1, keep) \o (IF n \in keep THEN <<n>> ELSE <<>>)

SeqsUpTo(S, n) == UNION {[1..k -> S] : k \in 0..n}

Range(f) == {f[x] : x \in DOMAIN f}

-----------------------------------------------------------------------------
(* The module's global names: what a bare name in a function body resolves to *)

ModuleGlobals ==
  {"csv", "json", "logging", "os", "requests", "gpd", "imageio", "plt",
   "headers", "write_to_csv", "clean_data_derive_insights", "get_all_ofc_data",
   "get_wards", "create_behemoth_geojson", "main"}

NameDefined(name) == name \in ModuleGlobals

-----------------------------------------------------------------------------
(* parse_email_domain *)

email_mappings ==
  ("ril.com" :> "Reliance Jio") @@
  ("acttv.in" :> "ACT TV") @@
  ("vodafone.com" :> "Vodafone Idea") @@
  ("airtel.com" :> "Bharti Airtel") @@
  ("vodafoneidea.com" :> "Vodafone Idea") @@
  ("idea.adityabirla.com" :> "Vodafone Idea") @@
  ("tatadocomo.com" :> "TATA Docomo") @@
  ("relianceada.com" :> "Reliance ADA") @@
  ("tatacommunications.com" :> "TATA Communications") @@
  ("tataskybb.com" :> "TATA Sky Broadband") @@
  ("tatatel.co.in" :> "TATA Teleservices") @@
  ("i-on.in" :> "i-on") @@
  ("spectranet.in" :> "Spectra") @@
  ("actcorp.in" :> "ACT Fibernet")

\* Mutant: the handler catches KeyError only, so a missing '@' or a missing
\* value raises out of the function.
parse_email_domain_KeyErrorOnly(r) ==
  LET email_id == r.application_email_id IN
  IF email_id.kind # "str" THEN "raise AttributeError"
  ELSE LET parts == StrSplit(email_id.s, "@") IN
       IF Len(parts) < 2 THEN "raise IndexError"
       ELSE LET domain == Cat(parts[2]) IN
            IF domain \in DOMAIN email_mappings THEN email_mappings[domain]
            ELSE None

parse_email_domain(r) ==
  LET email_id == r.application_email_id IN
  IF email_id.kind # "str" THEN None                  \* AttributeError, caught
  ELSE LET parts == StrSplit(email_id.s, "@") IN
       IF Len(parts) < 2 THEN None                    \* IndexError, caught
       ELSE LET domain == Cat(parts[2]) IN
            IF domain \in DOMAIN email_mappings THEN email_mappings[domain]
            ELSE None                                 \* KeyError, caught

-----------------------------------------------------------------------------
(* Permit rows as the remote server sends them.  A submission date is the    *)
(* text's fields: fmt says whether the text has the shape                    *)
(* month/day/year hour:minute:second AM|PM.                                  *)

DateText(fmt, mo, d, y, h, mi, s, ap) ==
  [fmt |-> fmt, month |-> mo, day |-> d, year |-> y,
   hour |-> h, minute |-> mi, second |-> s, ampm |-> ap]

Date_1_2_2020_3_04_05_PM == DateText("mdY12", 1, 2, 2020, 3, 4, 5, "PM")
Date_12_31_2019_12_00_00_AM == DateText("mdY12", 12, 31, 2019, 12, 0, 0, "AM")
Date_2020_01_02_15_04_05 == DateText("Ymd24", 1, 2, 2020, 15, 4, 5, "")

a_ril_com == <<"a", "@", "r", "i", "l", ".", "c", "o", "m">>
b_actcorp_in == <<"b", "@", "a", "c", "t", "c", "o", "r", "p", ".", "i", "n">>
x_unknown_org == <<"x", "@", "u", "n", "k", "n", "o", "w", "n", ".", "o", "r", "g">>
not_an_email == <<"n", "o", "t", "-", "a", "n", "-", "e", "m", "a", "i", "l">>

\* Shape_Coordinates: a JSON-encoded string; parses records whether it is JSON
CoordText(parses, coords) == [parses |-> parses, coords |-> coords]
LineA == <<<<7759, 1297>>, <<7760, 1298>>>>
LineB == <<<<7761, 1299>>, <<7762, 1300>>>>

PermitRow(seg, app, email, ofc, shape, date) ==
  [SegmentID |-> seg, StreetName |-> "MG Road", ApplicationId |-> app,
   ApplicationsubmittedDate |-> date, EmailId |-> email,
   OFCcableLength |-> ofc, NumberOfPits |-> "2",
   NameofAuthorizedPerson |-> "P", SegmentLength |-> "300",
   WardName |-> "W5", ZoneName |-> "Z1", Shape_Coordinates |-> shape]

Row1 == PermitRow("S1", "A1", Str(a_ril_com), "100",
                  CoordText(TRUE, LineA), Date_1_2_2020_3_04_05_PM)
\* the pair of Row1, another line string
Row2 == PermitRow("S1", "A1", Str(a_ril_com), "100",
                  CoordText(TRUE, LineB), Date_1_2_2020_3_04_05_PM)
\* the line string and segment of Row1 under another application
Row3 == PermitRow("S1", "A2", Str(b_actcorp_in), "250",
                  CoordText(TRUE, LineA), Date_12_31_2019_12_00_00_AM)
\* the pair of Row1 with other properties
Row4 == PermitRow("S1", "A1", Str(b_actcorp_in), "250",
                  CoordText(TRUE, LineA), Date_12_31_2019_12_00_00_AM)
Row5 == PermitRow("S2", "A2", Str(x_unknown_org), "40",
                  CoordText(TRUE, LineA), Date_1_2_2020_3_04_05_PM)
Row6 == PermitRow("S2", "A3", NoneStr, "70",
                  CoordText(TRUE, LineB), Date_2020_01_02_15_04_05)
Row7 == PermitRow("S2", "A3", Str(not_an_email), "n/a",
                  CoordText(TRUE, LineB), Date_1_2_2020_3_04_05_PM)
RowBadShape == PermitRow("S1", "A1", Str(a_ril_com), "100",
                         CoordText(FALSE, <<>>), Date_1_2_2020_3_04_05_PM)

CleanRows == {Row1, Row2, Row3, Row4, Row5, Row6, Row7}

-----------------------------------------------------------------------------
(* create_behemoth_geojson: one feature of a row *)

MakeFeature(r) ==
  [type |-> "Feature",
   properties |->
     [segment_id |-> r.SegmentID,
      street_name |-> r.StreetName,
      application_id |-> r.ApplicationId,
      application_submitted_date |-> r.ApplicationsubmittedDate,
      application_email_id |-> r.EmailId,
      ofc_cable_length |-> r.OFCcableLength,
      number_of_pits |-> r.NumberOfPits,
      authorized_person |-> r.NameofAuthorizedPerson,
      segment_length |-> r.SegmentLength,
      ward_name |-> r.WardName,
      zone_name |-> r.ZoneName],
   geometry |-> [type |-> "LineString", coordinates |-> r.Shape_Coordinates.coords]]

NoFile == [exists |-> FALSE, rows |-> <<>>]
File(rows) == [exists |-> TRUE, rows |-> rows]

-----------------------------------------------------------------------------
(* clean_data_derive_insights *)

\* gpd.read_file: one frame row per feature, the properties as columns, the
\* geometry column, and the positional index 0..n-1
ReadFile(fs) ==
  [k \in 1..Len(fs) |->
     [index |-> k - 1,
      segment_id |-> fs[k].properties.segment_id,
      street_name |-> fs[k].properties.street_name,
      application_id |-> fs[k].properties.application_id,
      application_submitted_date |-> fs[k].properties.application_submitted_date,
      application_email_id |-> fs[k].properties.application_email_id,
      ofc_cable_length |-> fs[k].properties.ofc_cable_length,
      number_of_pits |-> fs[k].properties.number_of_pits,
      authorized_person |-> fs[k].properties.authorized_person,
      segment_length |-> fs[k].properties.segment_length,
      ward_name |-> fs[k].properties.ward_name,
      zone_name |-> fs[k].properties.zone_name,
      geometry |-> fs[k].geometry.coordinates]]

SegmentKey(r) == <<r.segment_id, r.application_id>>
SpreadKey(r) == <<r.geometry, r.segment_id>>

Pick(g, ks) == [n \in 1..Len(ks) |-> g[ks[n]]]

\* Mutant: keep='last'
drop_duplicates_segments_KeepLast(g) ==
  Pick(g, SelectIdx(Len(g),
       {k \in 1..Len(g) :
          \A j \in (k + 1)..Len(g) : SegmentKey(g[j]) # SegmentKey(g[k])}))

\* gdf.drop_duplicates(subset=['segment_id', 'application_id']): the first row
\* of each key, in the frame's order
drop_duplicates_segments(g) ==
  Pick(g, SelectIdx(Len(g),
       {k \in 1..Len(g) :
          \A j \in 1..(k - 1) : SegmentKey(g[j]) # SegmentKey(g[k])}))

\* gdf.drop_duplicates(subset=['geometry', 'segment_id'])
drop_duplicates_spread(g) ==
  Pick(g, SelectIdx(Len(g),
       {k \in 1..Len(g) :
          \A j \in 1..(k - 1) : SpreadKey(g[j]) # SpreadKey(g[k])}))

DropGeometry(g) ==
  [k \in 1..Len(g) |->
     [f \in (DOMAIN g[k]) \ {"geometry"} |-> g[k][f]]]

WithCompany(g) ==
  [k \in 1..Len(g) |->
     [f \in (DOMAIN g[k]) \cup {"company"} |->
        IF f = "company" THEN parse_email_domain(g[k]) ELSE g[k][f]]]

\* float() and int() of the texts the rows carry
NumberOf ==
  ("2" :> 2) @@ ("40" :> 40) @@ ("70" :> 70) @@ ("100" :> 100) @@
  ("250" :> 250) @@ ("300" :> 300)

Castable(v) == v \in DOMAIN NumberOf

AllCastable(g) ==
  \A k \in 1..Len(g) : /\ Castable(g[k].ofc_cable_length)
                       /\ Castable(g[k].segment_length)
                       /\ Castable(g[k].number_of_pits)

WithCasts(g) ==
  [k \in 1..Len(g) |->
     [g[k] EXCEPT !.ofc_cable_length = NumberOf[@],
                  !.segment_length = NumberOf[@],
                  !.number_of_pits = NumberOf[@]]]

Pad2(n) == IF n < 10 THEN "0" \o ToString(n) ELSE ToString(n)

\* datetime.strptime(text, '%m/%d/%Y %I:%M:%S %p')
StrptimeMatches(d) == d.fmt = "mdY12"

\* ... .isoformat()
IsoFormat(d) ==
  LET hour24 == (d.hour % 12) + (IF d.ampm = "PM" THEN 12 ELSE 0) IN
  ToString(d.year) \o "-" \o Pad2(d.month) \o "-" \o Pad2(d.day) \o "T" \o
  Pad2(hour24) \o ":" \o Pad2(d.minute) \o ":" \o Pad2(d.second)

AllDatesMatch(g) ==
  \A k \in 1..Len(g) : StrptimeMatches(g[k].application_submitted_date)

WithSubmittedTime(g) ==
  [k \in 1..Len(g) |->
     [f \in (DOMAIN g[k]) \cup {"application_submitted_time"} |->
        IF f = "application_submitted_time"
          THEN IsoFormat(g[k].application_submitted_date)
          ELSE g[k][f]]]

SegmentColumns ==
  {"segment_id", "application_submitted_time", "segment_length",
   "ofc_cable_length", "company", "number_of_pits", "ward_name"}

SpreadColumns ==
  {"geometry", "company", "street_name", "application_submitted_time",
   "segment_id"}

\* gdf[[...]]: the columns named; the index of a frame is not a column and stays
Project(g, cols) == [k \in 1..Len(g) |-> [f \in cols \cup {"index"} |-> g[k][f]]]

\* to_csv(index=False): the cells of each row, without the index; a missing
\* company is the empty cell
ToCsv(g) ==
  [k \in 1..Len(g) |->
     [f \in (DOMAIN g[k]) \ {"index"} |->
        IF f = "company" /\ g[k][f] = None THEN "" ELSE g[k][f]]]

\* groupby('company').sum()['ofc_cable_length']: rows without a company are
\* in no group
GroupSum(g) ==
  LET cs == {g[k].company : k \in 1..Len(g)} \ {None} IN
  [c \in cs |->
     SumSeq([k \in 1..Len(g) |->
               IF g[k].company = c THEN g[k].ofc_cable_length ELSE 0])]

\* gdf_spread['company'].unique() without None: first-seen order
Companies(g) ==
  LET ks == SelectIdx(Len(g),
              {k \in 1..Len(g) :
                 /\ g[k].company # None
                 /\ \A j \in 1..(k - 1) : g[j].company # g[k].company})
  IN  [n \in 1..Len(ks) |-> g[ks[n]].company]

\* generate_spread_gif: one frame per company, in that order
generate_spread_gif(layer) ==
  LET cs == Companies(layer) IN
  [n \in 1..Len(cs) |->
     [title |-> cs[n],
      lines |-> {layer[k].geometry :
                   k \in {j \in 1..Len(layer) : layer[j].company = cs[n]}}]]

NoTotals == [printed |-> FALSE, totals |-> <<>>]

CleanResult(err, g, segs, csv, tot, spread, layer, anim) ==
  [error |-> err, gdf |-> g, gdf_segments |-> segs, segments_csv |-> csv,
   view_total_ofc_length |-> tot, gdf_spread |-> spread, gpkg |-> layer,
   gif |-> anim]

\* The whole function on the feature list of the file at path_to_full_data
CleanRun(fs) ==
  LET g == ReadFile(fs)
      segs0 == WithCompany(DropGeometry(drop_duplicates_segments(g)))
      segs1 == WithCasts(segs0)
      segs2 == Project(WithSubmittedTime(segs1), SegmentColumns)
      spread0 == WithCompany(drop_duplicates_spread(g))
      spread1 == Project(WithSubmittedTime(spread0), SpreadColumns)
  IN
  IF g = <<>>
    \* a collection without features has no property columns
    THEN CleanResult("KeyError", g, <<>>, NoFile, NoTotals, <<>>, NoFile, NoFile)
  ELSE IF ~AllCastable(segs0)
    THEN CleanResult("ValueError", g, segs0, NoFile, NoTotals, <<>>, NoFile, NoFile)
  ELSE IF ~NameDefined("datetime")
    THEN CleanResult("NameError", g, segs1, NoFile, NoTotals, <<>>, NoFile, NoFile)
  ELSE IF ~AllDatesMatch(segs1)
    THEN CleanResult("ValueError", g, segs1, NoFile, NoTotals, <<>>, NoFile, NoFile)
  ELSE IF ~AllDatesMatch(spread0)
    \* line 149, after the table was written and the totals were printed
    THEN CleanResult("ValueError", g, segs2, File(ToCsv(segs2)),
                     [printed |-> TRUE, totals |-> GroupSum(segs2)],
                     spread0, NoFile, NoFile)
  ELSE CleanResult("none", g, segs2, File(ToCsv(segs2)),
                   [printed |-> TRUE, totals |-> GroupSum(segs2)],
                   spread1, File(spread1), File(generate_spread_gif(spread1)))

-----------------------------------------------------------------------------
(* Response bodies and raw files: a JSON envelope whose field 'd' is itself  *)
(* a JSON-encoded string.  A text is the structure json.loads finds in it.   *)

JsonText(outer, has_d, d_parses, kind, rows) ==
  [outer |-> outer,          \* "invalid" (not JSON), "object" or "array"
   has_d |-> has_d,          \* the object has a key 'd'
   d_parses |-> d_parses,    \* the string under 'd' is JSON
   kind |-> kind,            \* what it decodes to: "list" or "null"
   rows |-> rows]

TextHtml == JsonText("invalid", FALSE, FALSE, "null", <<>>)
TextNoD == JsonText("object", FALSE, FALSE, "null", <<>>)
TextArray == JsonText("array", FALSE, FALSE, "null", <<>>)
TextBadD == JsonText("object", TRUE, FALSE, "null", <<>>)
TextNull == JsonText("object", TRUE, TRUE, "null", <<>>)
TextRows(rows) == JsonText("object", TRUE, TRUE, "list", rows)
NoText == JsonText("none", FALSE, FALSE, "null", <<>>)

\* json.loads(text): the exception raised, or "none"
OuterLoads(t) == IF t.outer = "invalid" THEN "JSONDecodeError" ELSE "none"

\* json.loads(data['d']): the exception raised, or "none"
InnerLoads(t) ==
  IF t.outer = "array" THEN "TypeError"
  ELSE IF ~t.has_d THEN "KeyError"
  ELSE IF ~t.d_parses THEN "JSONDecodeError"
  ELSE "none"

\* for row in rows: the exception raised, or "none"
IterRows(t) == IF t.kind = "list" THEN "none" ELSE "TypeError"

RawTexts ==
  {TextHtml, TextNoD, TextBadD, TextNull, TextRows(<<>>), TextRows(<<Row1>>),
   TextRows(<<Row2, Row3>>), TextRows(<<RowBadShape>>)}

NoError == [exc |-> "none", where |-> "none"]
Raised(exc, where) == [exc |-> exc, where |-> where]

\* Where a function returns to: main's next call, or the end of the run
After(fn) ==
  IF entry # "main" THEN "done"
  ELSE CASE fn = "get_wards" -> "read_csv"
         [] fn = "read_csv" -> "get_all_ofc_data"
         [] fn = "get_all_ofc_data" -> "create_behemoth_geojson"
         [] fn = "create_behemoth_geojson" -> "clean_data_derive_insights"
         [] OTHER -> "done"

WardsVars == <<i, final_data, zones_wards_csv>>
FetchVars == <<zones_wards, idx, fpc, page, log, data_raw_dir, data_raw, writes,
               received>>
CollectVars == <<files_left, features, geojson>>
CleanVars == <<gdf, gdf_segments, segments_csv, view_total_ofc_length,
               gdf_spread, gpkg, gif>>
EmailVars == <<row, company>>

-----------------------------------------------------------------------------
(* get_wards and write_to_csv *)

WardRecord(id) == [Zone_Name |-> "Z", Ward_Id |-> id, Ward_Name |-> "W"]

\* what LoadWardByZone may answer
ZoneTexts ==
  {TextHtml, TextNoD, TextBadD, TextRows(<<>>),
   TextRows(<<WardRecord(5)>>), TextRows(<<WardRecord(6)>>)}

\* csv.DictWriter: every cell is written as str(value); DictReader reads it back
CsvRows(list_of_dicts) ==
  [k \in 1..Len(list_of_dicts) |->
     [zone_id |-> list_of_dicts[k].zone_id,
      zone_name |-> list_of_dicts[k].zone_name,
      ward_id |-> ToString(list_of_dicts[k].ward_id),
      ward_name |-> list_of_dicts[k].ward_name]]

\* write_to_csv(list_of_dicts, filename): the exception and the file after it
write_to_csv(list_of_dicts, before) ==
  IF list_of_dicts = <<>>
    THEN [exc |-> "IndexError", file |-> before]
    ELSE [exc |-> "none", file |-> File(CsvRows(list_of_dicts))]

ZoneRows(z, t) ==
  [k \in 1..Len(t.rows) |->
     [zone_id |-> ToString(z),
      zone_name |-> t.rows[k].Zone_Name,
      ward_id |-> t.rows[k].Ward_Id,
      ward_name |-> t.rows[k].Ward_Name]]

ZoneParseError(t) ==
  IF OuterLoads(t) # "none" THEN OuterLoads(t)
  ELSE IF InnerLoads(t) # "none" THEN InnerLoads(t)
  ELSE IterRows(t)

\* Mutant: write_to_csv is indented into the loop, so the file is rewritten
\* after every zone.
get_wards_zone_WriteInLoop(z, t, fd, csv) ==
  IF ZoneParseError(t) # "none"
    THEN [exc |-> ZoneParseError(t), final_data |-> fd, csv |-> csv]
    ELSE [exc |-> "none", final_data |-> fd \o ZoneRows(z, t),
          csv |-> write_to_csv(fd \o ZoneRows(z, t), csv).file]

\* One iteration of the loop over the zones, for the body t the request
\* returned: the exception raised, final_data and the ward list file after it
get_wards_zone(z, t, fd, csv) ==
  IF ZoneParseError(t) # "none"
    THEN [exc |-> ZoneParseError(t), final_data |-> fd, csv |-> csv]
    ELSE [exc |-> "none", final_data |-> fd \o ZoneRows(z, t), csv |-> csv]

GetWardsZoneRaises ==
  /\ pc = "get_wards"
  /\ i <= LastZone
  /\ stdout' = Append(stdout, [text |-> "Starting zone ", arg |-> ToString(i)])
  /\ error' = Raised("ConnectionError", "get_wards")
  /\ pc' = "aborted"
  /\ UNCHANGED <<entry, WardsVars, FetchVars, CollectVars, CleanVars, EmailVars>>

GetWardsZone ==
  /\ pc = "get_wards"
  /\ i <= LastZone
  /\ \E t \in ZoneTexts :
       /\ Len(final_data) + Len(t.rows) <= MaxWards
       /\ LET r == get_wards_zone(i, t, final_data, zones_wards_csv) IN
          /\ final_data' = r.final_data
          /\ zones_wards_csv' = r.csv
          /\ error' = IF r.exc = "none" THEN error ELSE Raised(r.exc, "get_wards")
          /\ pc' = IF r.exc = "none" THEN pc ELSE "aborted"
          /\ i' = IF r.exc = "none" THEN i + 1 ELSE i
  /\ stdout' = Append(stdout, [text |-> "Starting zone ", arg |-> ToString(i)])
  /\ UNCHANGED <<entry, FetchVars, CollectVars, CleanVars, EmailVars>>

GetWardsWrite ==
  /\ pc = "get_wards"
  /\ i > LastZone
  /\ LET r == write_to_csv(final_data, zones_wards_csv) IN
     /\ zones_wards_csv' = r.file
     /\ error' = IF r.exc = "none" THEN error ELSE Raised(r.exc, "write_to_csv")
     /\ pc' = IF r.exc = "none" THEN After("get_wards") ELSE "aborted"
  /\ UNCHANGED <<entry, stdout, i, final_data, FetchVars, CollectVars, CleanVars,
                 EmailVars>>

\* main, lines 297-299: the ward list is read back from the file
MainReadCsv ==
  /\ pc = "read_csv"
  /\ zones_wards' = zones_wards_csv.rows
  /\ pc' = After("read_csv")
  /\ UNCHANGED <<entry, error, stdout, WardsVars, idx, fpc, page, log, data_raw_dir, data_raw,
                 writes, received, CollectVars, CleanVars, EmailVars>>

-----------------------------------------------------------------------------
(* get_all_ofc_data *)

\* Mutant: the file name does not depend on the ward
RawFileName_Fixed(ward_id) == "data_raw/ward.txt"

\* filename = f'data_raw/{ward_id}.txt'
RawFileName(ward_id) == "data_raw/" \o ward_id \o ".txt"

LogLine(msg, ward_id) == [msg |-> msg, ward_id |-> ward_id]

\* Mutant: the completion is logged before the file is written
FetchOrder_SavedBeforeWrite == <<"attempt", "post", "saved", "write">>

\* The statements of the loop body, in their order: the attempt is logged,
\* the request is made, the file is written, the completion is logged
FetchOrder == <<"attempt", "post", "write", "saved">>

StepAfter(s) ==
  LET k == CHOOSE n \in 1..Len(FetchOrder) : FetchOrder[n] = s IN
  IF k = Len(FetchOrder) THEN FetchOrder[1] ELSE FetchOrder[k + 1]

IsLastStep(s) == FetchOrder[Len(FetchOrder)] = s

Advance(s) ==
  /\ fpc' = StepAfter(s)
  /\ idx' = IF IsLastStep(s) THEN idx + 1 ELSE idx

InLoop(s) ==
  /\ pc = "get_all_ofc_data"
  /\ idx <= Len(zones_wards)
  /\ fpc = s

FetchAttempt ==
  /\ InLoop("attempt")
  /\ log' = Append(log, LogLine("Attempting", zones_wards[idx].ward_id))
  /\ Advance("attempt")
  /\ UNCHANGED <<pc, entry, error, stdout, WardsVars, zones_wards, page, data_raw_dir, data_raw,
                 writes, received, CollectVars, CleanVars, EmailVars>>

\* session.post returns a response, whatever its body
FetchPost ==
  /\ InLoop("post")
  /\ \E t \in RawTexts : page' = t /\ received' = Append(received, t)
  /\ Advance("post")
  /\ UNCHANGED <<pc, entry, error, stdout, WardsVars, zones_wards, log, data_raw_dir, data_raw,
                 writes, CollectVars, CleanVars, EmailVars>>

\* session.post raises (no connection, no response): nothing catches it
FetchPostRaises ==
  /\ InLoop("post")
  /\ error' = Raised("ConnectionError", "get_all_ofc_data")
  /\ pc' = "aborted"
  /\ UNCHANGED <<entry, stdout, WardsVars, FetchVars, CollectVars, CleanVars,
                 EmailVars>>

\* with open(filename, 'w') as f: f.write(page.text)
FetchWrite ==
  /\ InLoop("write")
  /\ data_raw_dir
  /\ LET filename == RawFileName(zones_wards[idx].ward_id) IN
     /\ data_raw' = (filename :> page) @@ data_raw
     /\ writes' = (filename :> (IF filename \in DOMAIN writes
                                  THEN writes[filename] + 1 ELSE 1)) @@ writes
  /\ Advance("write")
  /\ UNCHANGED <<pc, entry, error, stdout, WardsVars, zones_wards, page, log,
                 data_raw_dir, received, CollectVars, CleanVars, EmailVars>>

\* open(filename, 'w') raises when the directory data_raw is missing (nothing
\* in the program creates it): nothing catches it
FetchWriteRaises ==
  /\ InLoop("write")
  /\ ~data_raw_dir
  /\ error' = Raised("FileNotFoundError", "get_all_ofc_data")
  /\ pc' = "aborted"
  /\ UNCHANGED <<entry, stdout, WardsVars, FetchVars, CollectVars, CleanVars,
                 EmailVars>>

FetchSaved ==
  /\ InLoop("saved")
  /\ log' = Append(log, LogLine("Saved", zones_wards[idx].ward_id))
  /\ Advance("saved")
  /\ UNCHANGED <<pc, entry, error, stdout, WardsVars, zones_wards, page, data_raw_dir, data_raw,
                 writes, received, CollectVars, CleanVars, EmailVars>>

FetchReturn ==
  /\ pc = "get_all_ofc_data"
  /\ idx > Len(zones_wards)
  /\ pc' = After("get_all_ofc_data")
  /\ UNCHANGED <<entry, error, stdout, WardsVars, FetchVars, CollectVars,
                 CleanVars, EmailVars>>

-----------------------------------------------------------------------------
(* create_behemoth_geojson *)

RECURSIVE RowsBeforeBadShape(_)
RowsBeforeBadShape(rows) ==
  IF rows = <<>> \/ ~Head(rows).Shape_Coordinates.parses THEN <<>>
  ELSE <<Head(rows)>> \o RowsBeforeBadShape(Tail(rows))

FeaturesOf(rows) == [k \in 1..Len(rows) |-> MakeFeature(rows[k])]

\* One iteration of the loop over the files, for the content t of the file:
\* the exception that leaves the loop, whether the file is skipped, and the
\* features appended
collect_file(t) ==
  IF OuterLoads(t) # "none"                      \* line 244, outside the try
    THEN [exc |-> OuterLoads(t), skipped |-> FALSE, feats |-> <<>>]
  ELSE IF InnerLoads(t) # "none"                 \* lines 247-251
    THEN [exc |-> "none", skipped |-> TRUE, feats |-> <<>>]
  ELSE IF IterRows(t) # "none"                   \* line 253
    THEN [exc |-> IterRows(t), skipped |-> FALSE, feats |-> <<>>]
  ELSE IF RowsBeforeBadShape(t.rows) # t.rows    \* line 271
    THEN [exc |-> "JSONDecodeError", skipped |-> FALSE,
          feats |-> FeaturesOf(RowsBeforeBadShape(t.rows))]
  ELSE [exc |-> "none", skipped |-> FALSE, feats |-> FeaturesOf(t.rows)]

\* lines 238-239: features = [], files = os.listdir(path_to_raw_data)
CollectStart ==
  /\ pc = "create_behemoth_geojson"
  /\ data_raw_dir
  /\ features' = <<>>
  /\ files_left' = DOMAIN data_raw
  /\ pc' = "for f in files"
  /\ UNCHANGED <<entry, error, stdout, WardsVars, FetchVars, geojson, CleanVars,
                 EmailVars>>

\* os.listdir raises when the directory is missing
CollectStartRaises ==
  /\ pc = "create_behemoth_geojson"
  /\ ~data_raw_dir
  /\ features' = <<>>
  /\ error' = Raised("FileNotFoundError", "create_behemoth_geojson")
  /\ pc' = "aborted"
  /\ UNCHANGED <<entry, stdout, WardsVars, FetchVars, files_left, geojson,
                 CleanVars, EmailVars>>

\* The next file of the listing, which has no fixed order
CollectFile ==
  /\ pc = "for f in files"
  /\ \E f \in files_left :
       LET r == collect_file(data_raw[f]) IN
       /\ files_left' = files_left \ {f}
       /\ features' = features \o r.feats
       /\ stdout' = IF r.skipped
                      THEN Append(stdout, [text |-> "Could not parse data for ",
                                           arg |-> f])
                      ELSE stdout
       /\ error' = IF r.exc = "none" THEN error
                   ELSE Raised(r.exc, "create_behemoth_geojson")
       /\ pc' = IF r.exc = "none" THEN pc ELSE "aborted"
  /\ UNCHANGED <<entry, WardsVars, FetchVars, geojson, CleanVars, EmailVars>>

\* lines 279-282: the collection is written once, after the loop
CollectWrite ==
  /\ pc = "for f in files"
  /\ files_left = {}
  /\ geojson' = File(features)
  /\ pc' = After("create_behemoth_geojson")
  /\ UNCHANGED <<entry, error, stdout, WardsVars, FetchVars, files_left, features,
                 CleanVars, EmailVars>>

-----------------------------------------------------------------------------
(* clean_data_derive_insights and parse_email_domain as steps *)

Clean ==
  /\ pc = "clean_data_derive_insights"
  /\ LET r == CleanRun(geojson.rows) IN
     /\ gdf' = r.gdf
     /\ gdf_segments' = r.gdf_segments
     /\ segments_csv' = r.segments_csv
     /\ view_total_ofc_length' = r.view_total_ofc_length
     /\ gdf_spread' = r.gdf_spread
     /\ gpkg' = r.gpkg
     /\ gif' = r.gif
     /\ error' = IF r.error = "none" THEN error
                 ELSE Raised(r.error, "clean_data_derive_insights")
     /\ pc' = IF r.error = "none" THEN After("clean_data_derive_insights")
              ELSE "aborted"
     /\ stdout' = IF r.view_total_ofc_length.printed
                    THEN Append(stdout, [text |-> "view_total_ofc_length",
                                         arg |-> r.view_total_ofc_length.totals])
                    ELSE stdout
  /\ UNCHANGED <<entry, WardsVars, FetchVars, CollectVars, EmailVars>>

ParseEmail ==
  /\ pc = "parse_email_domain"
  /\ company' = parse_email_domain(row)
  /\ pc' = "done"
  /\ UNCHANGED <<entry, error, stdout, WardsVars, FetchVars, CollectVars,
                 CleanVars, row>>

-----------------------------------------------------------------------------
(* Initial states *)

Unset == "<unset>"

\* What an earlier run may have left behind
OldWardFile ==
  File(<<[zone_id |-> "8", zone_name |-> "Z", ward_id |-> "9", ward_name |-> "W"]>>)
OldLog == <<LogLine("Attempting", "9"), LogLine("Saved", "9")>>
OldRaw == RawFileName("9") :> TextRows(<<Row5>>)

IdleWards ==
  /\ i = FirstZone
  /\ final_data = <<>>

IdleFetch ==
  /\ idx = 1
  /\ fpc = FetchOrder[1]
  /\ page = NoText
  /\ writes = <<>>
  /\ received = <<>>

IdleCollect ==
  /\ files_left = {}
  /\ features = <<>>

IdleClean ==
  /\ gdf = <<>>
  /\ gdf_segments = <<>>
  /\ segments_csv = NoFile
  /\ view_total_ofc_length = NoTotals
  /\ gdf_spread = <<>>
  /\ gpkg = NoFile
  /\ gif = NoFile

IdleEmail ==
  /\ row = [application_email_id |-> NoneStr]
  /\ company = Unset

Started(fn) ==
  /\ pc = (IF fn = "main" THEN "get_wards" ELSE fn)
  /\ entry = fn
  /\ error = NoError
  /\ stdout = <<>>

\* main()
InitMain ==
  /\ Started("main")
  /\ IdleWards /\ IdleFetch /\ IdleCollect /\ IdleClean /\ IdleEmail
  /\ zones_wards_csv \in {NoFile, OldWardFile}
  /\ zones_wards = <<>>
  /\ log = <<>>
  /\ data_raw_dir \in BOOLEAN
  /\ data_raw = <<>>
  /\ geojson = NoFile

WardRows ==
  {[zone_id |-> z, zone_name |-> "Z", ward_id |-> w, ward_name |-> "W"] :
     z \in {"1", "2"}, w \in {"5", "6"}}

\* get_all_ofc_data(zones_wards) on any ward list
InitFetch ==
  /\ Started("get_all_ofc_data")
  /\ IdleWards /\ IdleFetch /\ IdleCollect /\ IdleClean /\ IdleEmail
  /\ zones_wards_csv = NoFile
  /\ zones_wards \in SeqsUpTo(WardRows, MaxList)
  /\ \/ log = <<>> /\ data_raw = <<>> /\ data_raw_dir \in BOOLEAN
     \/ log = OldLog /\ data_raw = OldRaw /\ data_raw_dir = TRUE
  /\ geojson = NoFile

FileNames == {RawFileName("5"), RawFileName("6"), RawFileName("7")}

\* what a raw file may hold: a body the fetcher saved, or any other text
FileTexts == RawTexts \cup {TextArray}

Directories ==
  UNION {[names -> FileTexts] :
           names \in {ns \in SUBSET FileNames : Cardinality(ns) <= MaxFiles}}

\* create_behemoth_geojson(path_to_raw_data) on any directory of raw files
InitCollect ==
  /\ Started("create_behemoth_geojson")
  /\ IdleWards /\ IdleFetch /\ IdleCollect /\ IdleClean /\ IdleEmail
  /\ zones_wards_csv = NoFile
  /\ zones_wards = <<>>
  /\ log = <<>>
  /\ \/ data_raw_dir = TRUE /\ data_raw \in Directories
     \/ data_raw_dir = FALSE /\ data_raw = <<>>
  /\ geojson \in {NoFile, File(<<MakeFeature(Row5)>>)}

Collections == SeqsUpTo({MakeFeature(r) : r \in CleanRows}, MaxFeatures)

\* clean_data_derive_insights(path_to_full_data) on any feature collection
InitClean ==
  /\ Started("clean_data_derive_insights")
  /\ IdleWards /\ IdleFetch /\ IdleCollect /\ IdleClean /\ IdleEmail
  /\ zones_wards_csv = NoFile
  /\ zones_wards = <<>>
  /\ log = <<>>
  /\ data_raw_dir = TRUE
  /\ data_raw = <<>>
  /\ geojson \in {File(fs) : fs \in Collections}

RECURSIVE StrJoin(_, _)
StrJoin(parts, sep) ==
  IF Len(parts) = 1 THEN parts[1]
  ELSE parts[1] \o <<sep>> \o StrJoin(Tail(parts), sep)

Pieces ==
  {<<>>, <<"a">>, <<"r", "i", "l", ".", "c", "o", "m">>,
   <<"R", "I", "L", ".", "C", "O", "M">>,
   <<"a", "c", "t", "c", "o", "r", "p", ".", "i", "n">>,
   <<"u", "n", "k", "n", "o", "w", "n", ".", "o", "r", "g">>}

Emails ==
  {NoneStr} \cup
  {Str(StrJoin(ps, "@")) : ps \in SeqsUpTo(Pieces, MaxParts) \ {<<>>}}

\* parse_email_domain(row) on any application_email_id
InitEmail ==
  /\ Started("parse_email_domain")
  /\ IdleWards /\ IdleFetch /\ IdleCollect /\ IdleClean
  /\ zones_wards_csv = NoFile
  /\ zones_wards = <<>>
  /\ log = <<>>
  /\ data_raw_dir = TRUE
  /\ data_raw = <<>>
  /\ geojson = NoFile
  /\ row \in {[application_email_id |-> e] : e \in Emails}
  /\ company = Unset

-----------------------------------------------------------------------------
(* Specifications *)

NextWards == GetWardsZone \/ GetWardsZoneRaises \/ GetWardsWrite \/ MainReadCsv

NextFetch ==
  \/ FetchAttempt
  \/ FetchPost
  \/ FetchPostRaises
  \/ FetchWrite
  \/ FetchWriteRaises
  \/ FetchSaved
  \/ FetchReturn

NextCollect == CollectStart \/ CollectStartRaises \/ CollectFile \/ CollectWrite

NextClean == Clean

NextEmail == ParseEmail

\* main: the fetcher returns only after it wrote a file for every ward of a
\* list that is not empty, so the collector finds the directory
Next ==
  \/ NextWards
  \/ NextFetch
  \/ CollectStart
  \/ CollectFile
  \/ CollectWrite
  \/ NextClean

Spec == InitMain /\ [][Next]_vars
SpecFetch == InitFetch /\ [][NextFetch]_vars
SpecCollect == InitCollect /\ [][NextCollect]_vars
SpecClean == InitClean /\ [][NextClean]_vars
SpecEmail == InitEmail /\ [][NextEmail]_vars

-----------------------------------------------------------------------------
(* Properties of parse_email_domain *)

AtPositions(s) == {k \in 1..Len(s) : s[k] = "@"}

Min(S) == CHOOSE k \in S : \A j \in S : k <= j

\* The text between the first '@' and the next '@' (or the end)
DomainOf(s) ==
  LET first == Min(AtPositions(s))
      later == {k \in AtPositions(s) : k > first}
      stop == IF later = {} THEN Len(s) + 1 ELSE Min(later)
  IN  Cat(SubSeq(s, first + 1, stop - 1))

HasMappedDomain(e) ==
  /\ e.kind = "str"
  /\ AtPositions(e.s) # {}
  /\ DomainOf(e.s) \in DOMAIN email_mappings

\* C7: parse_email_domain returns a value for every application_email_id (a
\* missing value, no '@', several '@'): the operator of the table when the
\* domain of the address (the text after its first '@', up to the next '@')
\* is a key of the table, the absent value otherwise.
C7_EmailLookupTotal ==
  (entry = "parse_email_domain" /\ pc = "done") =>
     LET e == row.application_email_id IN
     /\ company \in {None} \cup Range(email_mappings)
     /\ HasMappedDomain(e) => company = email_mappings[DomainOf(e.s)]
     /\ ~HasMappedDomain(e) => company = None

C7_Witness ==
  /\ entry = "parse_email_domain"
  /\ pc = "done"
  /\ Cardinality(AtPositions(row.application_email_id.s)) >= 2
  /\ company = "ACT Fibernet"

-----------------------------------------------------------------------------
(* Properties of clean_data_derive_insights *)

CleanEnded ==
  /\ entry = "clean_data_derive_insights"
  /\ pc \in {"done", "aborted"}

SourcePairs == {SegmentKey(gdf[k]) : k \in 1..Len(gdf)}

FirstOfPair(p) == Min({k \in 1..Len(gdf) : SegmentKey(gdf[k]) = p})

\* the source rows a segment view must hold: the first of each pair
FirstRows == {FirstOfPair(p) : p \in SourcePairs}

\* C4: the segment view holds exactly one row for each (segment_id,
\* application_id) pair of the source, the first occurrence of the pair in
\* input order, and no other row.
C4_SegmentViewOnePerPair ==
  CleanEnded =>
    /\ \A p \in SourcePairs :
         \E n \in 1..Len(gdf_segments) :
           /\ gdf_segments[n].index = FirstOfPair(p) - 1
           /\ \A m \in 1..Len(gdf_segments) :
                SegmentKey(gdf[gdf_segments[m].index + 1]) = p => m = n
    /\ \A n \in 1..Len(gdf_segments) :
         /\ gdf_segments[n].index + 1 \in 1..Len(gdf)
         /\ gdf_segments[n].ward_name = gdf[gdf_segments[n].index + 1].ward_name
         /\ gdf_segments[n].segment_id = gdf[gdf_segments[n].index + 1].segment_id

\* a pair occurs twice, with other properties the second time, and was collapsed
C4_Witness ==
  /\ CleanEnded
  /\ Len(gdf) = 3
  /\ Len(gdf_segments) = 2
  /\ \E j, k \in 1..Len(gdf) :
       /\ j < k
       /\ SegmentKey(gdf[j]) = SegmentKey(gdf[k])
       /\ gdf[j].application_email_id # gdf[k].application_email_id

\* the input the claims about a completed stage are about: rows whose numbers
\* are numbers and whose dates have the format
CleanInputGood ==
  /\ gdf # <<>>
  /\ AllCastable(gdf)
  /\ AllDatesMatch(gdf)

\* C3 as stated: when every row's application_submitted_date has the format,
\* the stage normalizes the dates ("1/2/2020 3:04:05 PM" to
\* 2020-01-02T15:04:05) and writes its outputs; it fails only on a row whose
\* date does not match, and then writes nothing.
C3_StrictDateContract ==
  CleanEnded =>
    /\ CleanInputGood =>
         /\ pc = "done"
         /\ segments_csv.exists
         /\ gpkg.exists
         /\ \A k \in FirstRows :
              gdf[k].application_submitted_date = Date_1_2_2020_3_04_05_PM =>
                \E n \in 1..Len(segments_csv.rows) :
                  segments_csv.rows[n].application_submitted_time
                    = "2020-01-02T15:04:05"
    /\ (gdf # <<>> /\ AllCastable(gdf) /\ pc = "aborted") =>
         /\ ~AllDatesMatch(gdf)
         /\ ~segments_csv.exists

SourceSpreadKeys == {SpreadKey(gdf[k]) : k \in 1..Len(gdf)}

\* C5 as stated: the spread view has unique (geometry, segment_id) pairs and
\* holds every geometry of the source under its segment_id; two features of
\* one pair with different geometries give one segment row and two spread rows.
C5_SpreadViewComplete ==
  (CleanEnded /\ CleanInputGood) =>
    /\ \A m, n \in 1..Len(gdf_spread) :
         SpreadKey(gdf_spread[m]) = SpreadKey(gdf_spread[n]) => m = n
    /\ \A key \in SourceSpreadKeys :
         \E n \in 1..Len(gdf_spread) : SpreadKey(gdf_spread[n]) = key
    /\ (Len(gdf) = 2 /\ SegmentKey(gdf[1]) = SegmentKey(gdf[2])
          /\ gdf[1].geometry # gdf[2].geometry) =>
         (Len(gdf_segments) = 1 /\ Len(gdf_spread) = 2)

RECURSIVE SumOfcLength(_)
SumOfcLength(ks) ==
  IF ks = {} THEN 0
  ELSE LET k == CHOOSE x \in ks : TRUE IN
       NumberOf[gdf[k].ofc_cable_length] + SumOfcLength(ks \ {k})

RowsOfOperator(c) == {k \in FirstRows : parse_email_domain(gdf[k]) = c}

\* C6 as stated: the totals reported are, for each operator, the sum of
\* ofc_cable_length over the deduplicated segment rows of that operator; rows
\* without an operator are in no total and are in the segment summary file.
C6_TotalsPerOperator ==
  (CleanEnded /\ CleanInputGood) =>
    /\ view_total_ofc_length.printed
    /\ DOMAIN view_total_ofc_length.totals
         = {parse_email_domain(gdf[k]) : k \in FirstRows} \ {None}
    /\ \A c \in DOMAIN view_total_ofc_length.totals :
         view_total_ofc_length.totals[c] = SumOfcLength(RowsOfOperator(c))
    /\ segments_csv.exists
    /\ Len(segments_csv.rows) = Cardinality(FirstRows)

-----------------------------------------------------------------------------
(* Properties of create_behemoth_geojson *)

CollectEnded ==
  /\ entry = "create_behemoth_geojson"
  /\ pc \in {"done", "aborted"}

\* every layer of the file parses
WellFormed(t) ==
  /\ OuterLoads(t) = "none"
  /\ InnerLoads(t) = "none"
  /\ IterRows(t) = "none"
  /\ \A k \in 1..Len(t.rows) : t.rows[k].Shape_Coordinates.parses

\* the outer parse or the parse of the string under 'd' fails
ParseFails(t) == OuterLoads(t) # "none" \/ InnerLoads(t) # "none"

RECURSIVE RowCount(_)
RowCount(fs) ==
  IF fs = {} THEN 0
  ELSE LET f == CHOOSE x \in fs : TRUE IN
       (IF WellFormed(data_raw[f]) THEN Len(data_raw[f].rows) ELSE 0)
         + RowCount(fs \ {f})

\* C1 as stated: with raw files, in an existing directory, that are
\* well-formed or fail the outer or the inner parse, the failing files are skipped with a diagnostic, the run
\* reaches the final write, and the collection written holds one feature per
\* row of every well-formed file.
C1_MalformedFilesSkipped ==
  (CollectEnded /\ data_raw_dir /\ \A f \in DOMAIN data_raw :
                     WellFormed(data_raw[f]) \/ ParseFails(data_raw[f])) =>
    /\ pc = "done"
    /\ geojson = File(features)
    /\ Len(features) = RowCount(DOMAIN data_raw)
    /\ \A f \in DOMAIN data_raw :
         ParseFails(data_raw[f]) =>
           \E n \in 1..Len(stdout) : stdout[n].arg = f

-----------------------------------------------------------------------------
(* Properties of get_all_ofc_data *)

FetchEnded ==
  /\ entry = "get_all_ofc_data"
  /\ pc \in {"done", "aborted"}

\* the rows whose request was issued
RequestedRows ==
  {k \in 1..Len(zones_wards) : k < idx \/ (k = idx /\ fpc # "attempt")}

\* the rows whose request returned a body
ReturnedRows == 1..Len(received)

\* C2 as stated: whichever requests fail, every ward of the list is attempted,
\* and the body returned for a ward is persisted (the directory data_raw
\* being there to take the files).
C2_EveryWardAttempted ==
  (FetchEnded /\ data_raw_dir) =>
    /\ RequestedRows = 1..Len(zones_wards)
    /\ \A k \in ReturnedRows :
         RawFileName(zones_wards[k].ward_id) \in DOMAIN data_raw

DistinctWardIds ==
  \A j, k \in 1..Len(zones_wards) :
    zones_wards[j].ward_id = zones_wards[k].ward_id => j = k

\* C9 as stated: after the stage, every raw file was written exactly once and
\* there is one raw file per row of the ward list.
C9_OneFilePerWardRow ==
  (entry = "get_all_ofc_data" /\ pc = "done") =>
    /\ \A f \in DOMAIN writes : writes[f] = 1
    /\ Cardinality(DOMAIN writes) = Len(zones_wards)

\* the rows whose file this run has written
WrittenRows == {k \in 1..Len(zones_wards) : k \in DOMAIN received /\
                  (k < idx \/ (k = idx /\ fpc = "saved"))}

\* C9, amended: over a ward list whose ward_ids are pairwise distinct, each raw
\* file is written at most once, holds the body returned for its ward, and
\* is not changed by a later step; the files of the run are those of the rows
\* whose request returned and whose file could be written (a request that
\* raises, or a missing directory data_raw, ends the run at that row), all
\* rows when the loop completes; files of other wards are left as they were.
C9_WrittenOnceWhenDistinct ==
  (entry = "get_all_ofc_data" /\ DistinctWardIds) =>
    /\ \A f \in DOMAIN writes : writes[f] = 1
    /\ DOMAIN writes = {RawFileName(zones_wards[k].ward_id) : k \in WrittenRows}
    /\ \A k \in WrittenRows :
         data_raw[RawFileName(zones_wards[k].ward_id)] = received[k]
    /\ \A f \in (DOMAIN data_raw) \ (DOMAIN writes) :
         f \in DOMAIN OldRaw /\ data_raw[f] = OldRaw[f]
    /\ (pc = "done" => WrittenRows = 1..Len(zones_wards))

C9_Witness ==
  /\ entry = "get_all_ofc_data"
  /\ pc = "done"
  /\ DistinctWardIds
  /\ Len(zones_wards) = 2
  /\ Cardinality(DOMAIN writes) = 2
  /\ received[1] # received[2]
  /\ RawFileName("9") \in DOMAIN data_raw

RECURSIVE FullLog(_)
FullLog(zw) ==
  IF zw = <<>> THEN <<>>
  ELSE <<LogLine("Attempting", Head(zw).ward_id),
         LogLine("Saved", Head(zw).ward_id)>> \o FullLog(Tail(zw))

IsPrefix(s, t) == Len(s) <= Len(t) /\ s = SubSeq(t, 1, Len(s))

\* the lines this run appended, after what an earlier run left in the file
RunLogs ==
  {SubSeq(log, Len(prior) + 1, Len(log)) :
     prior \in {p \in {<<>>, OldLog} : IsPrefix(p, log)}}

\* C10: the log is appended in the order of the work: the lines of the run are
\* attempt, completion, attempt, completion, ... in the order of the ward
\* list, after the lines already in the file; the attempt of a ward is in the
\* log before its request is issued; the completion of a ward is in the log
\* only when its raw file exists, and has the attempt of that ward before it.
C10_LogOrderedWithWork ==
  entry = "get_all_ofc_data" =>
    /\ \E run \in RunLogs :
         /\ IsPrefix(run, FullLog(zones_wards))
         /\ Len(run) \in {2 * (idx - 1), 2 * (idx - 1) + 1}
         /\ \A k \in RequestedRows : Len(run) >= 2 * k - 1
    /\ \A n \in 1..Len(log) :
         log[n].msg = "Saved" =>
           /\ RawFileName(log[n].ward_id) \in DOMAIN data_raw
           /\ \E m \in 1..(n - 1) :
                log[m] = LogLine("Attempting", log[n].ward_id)

C10_Witness ==
  /\ entry = "get_all_ofc_data"
  /\ pc = "done"
  /\ Len(zones_wards) = 2
  /\ log = OldLog \o FullLog(zones_wards)
  /\ zones_wards[1].ward_id # zones_wards[2].ward_id

-----------------------------------------------------------------------------
(* Properties of main and get_wards *)

LaterStagesNotRun ==
  /\ zones_wards = <<>>
  /\ idx = 1 /\ fpc = FetchOrder[1] /\ page = NoText
  /\ received = <<>> /\ writes = <<>>
  /\ log = <<>>
  /\ data_raw = <<>>
  /\ files_left = {} /\ features = <<>> /\ geojson = NoFile
  /\ gdf = <<>> /\ segments_csv = NoFile /\ gpkg = NoFile /\ gif = NoFile

\* C8: a zone whose request or parse fails aborts the run: the ward list file
\* is as it was and no later stage has run; the file is written only after
\* all eight zones succeeded, with the full list.
C8_ZoneFailureAborts ==
  /\ error.where = "get_wards" =>
       /\ pc = "aborted"
       /\ i <= LastZone
       /\ zones_wards_csv \in {NoFile, OldWardFile}
       /\ LaterStagesNotRun
  /\ zones_wards_csv \notin {NoFile, OldWardFile} =>
       /\ i > LastZone
       /\ error.where # "get_wards"
       /\ zones_wards_csv = File(CsvRows(final_data))
  /\ pc = "get_wards" => zones_wards_csv \in {NoFile, OldWardFile}

\* a later zone fails after earlier zones returned wards
C8_Witness ==
  /\ error.where = "get_wards"
  /\ error.exc \in {"JSONDecodeError", "KeyError"}
  /\ i > FirstZone
  /\ final_data # <<>>
  /\ zones_wards_csv = OldWardFile

====
